---------------------------- MODULE Spec2Model ----------------------------
(***************************************************************************)
(* A model of app.py: a Streamlit page that loads accounts.csv, derives    *)
(* the token / pass / fes columns and filters the rows on a button press.  *)
(*                                                                         *)
(* Text is a sequence of characters.  A character is written as a short    *)
(* ASCII string: a Hangul syllable by its romanisation ("mi" is U+BBF8,    *)
(* "seong" is U+C131), a Latin letter or a digit by itself, "[[" and "]]"  *)
(* are the lenticular brackets U+3010 / U+3011, "FW+", "FW5", "FWA" are    *)
(* the fullwidth forms of "+", "5", "A", "IDSP" is U+3000, "NBSP" is       *)
(* U+00A0 and "EMOJI" is a character of a supplementary plane.             *)
(***************************************************************************)
EXTENDS Integers, Sequences, FiniteSets, TLC

VARIABLES
    pc,         \* where the script is: "load", "columns", "derive", "controls", "halted"
    file,       \* accounts.csv
    df,         \* the module-level DataFrame
    notice,     \* the st.error shown, if any
    ctl,        \* the widgets' values
    result,     \* the handler's local result after each of its filters
    rendered,   \* what the last run of the script rendered below the controls
    pressed,    \* whether the button was ever pressed in this session
    lastEvent,  \* the interaction that caused the last run
    tok         \* the tokenizer / query pipeline on one roster text

vars == <<pc, file, df, notice, ctl, result, rendered, pressed, lastEvent, tok>>

---------------------------------------------------------------------------
(* Characters and their classes, as the regular expressions of app.py see  *)
(* them (Python 3 str patterns: \w, \s, \d and \b are the Unicode ones).   *)

HangulSyllables ==
    {"hi", "ma", "ri", "ka", "mi", "su", "seong", "ne", "ru", "oh", "gyo",
     "im", "si", "no", "ku", "ro", "ko", "deu", "na", "wa", "mo", "gi", "sa",
     "jeu", "me"}

LatinLower == {"a", "b", "r"}

LatinUpper == {"A", "B", "R"}

Digits == {"0", "1", "4", "5", "8"}

\* [A-Za-z0-9]
IsAsciiAlnum(c) == c \in LatinLower \cup LatinUpper \cup Digits

\* [가-힣]
IsHangul(c) == c \in HangulSyllables

\* \w : letters, digits and the underscore
IsWordChar(c) == IsHangul(c) \/ IsAsciiAlnum(c) \/ c \in {"_", "FW5", "FWA"}

\* \s
IsSpace(c) == c \in {" ", "TAB", "IDSP", "NBSP"}

\* \d (after NFKC the fullwidth digits are already ASCII)
IsDigit(c) == c \in Digits \/ c = "FW5"

\* the character class of line 46
IsPunct(c) ==
    c \in {",", "|", "/", ";", ":", "(", ")", "[", "]", "[[", "]]", "-", "_",
           "*", "~", "<", ">", "'"}

\* [\U00010000-\U0010ffff]
IsSupplementary(c) == c = "EMOJI"

\* unicodedata.normalize("NFKC", c) for one character
NfkcChar(c) ==
    CASE c = "FW+"  -> <<"+">>
      [] c = "FW5"  -> <<"5">>
      [] c = "FWA"  -> <<"A">>
      [] c = "IDSP" -> <<" ">>
      [] c = "NBSP" -> <<" ">>
      [] OTHER      -> <<c>>

\* str.lower() for one character
LowerChar(c) ==
    CASE c = "A" -> "a"
      [] c = "B" -> "b"
      [] c = "R" -> "r"
      [] OTHER -> c

---------------------------------------------------------------------------
(* Generic string helpers.                                                 *)

RECURSIVE FlatMap(_, _)
FlatMap(F(_), s) ==
    IF s = <<>> THEN <<>> ELSE F(Head(s)) \o FlatMap(F, Tail(s))

MapSeq(F(_), s) == [i \in 1..Len(s) |-> F(s[i])]

Range(s) == {s[i] : i \in 1..Len(s)}

\* the character at position i, or "" outside the string
At(s, i) == IF i >= 1 /\ i <= Len(s) THEN s[i] ELSE ""

\* the first position >= i whose character does not satisfy P
RECURSIVE SkipWhile(_, _, _)
SkipWhile(P(_), s, i) ==
    IF i <= Len(s) /\ P(s[i]) THEN SkipWhile(P, s, i + 1) ELSE i

RECURSIVE LStrip(_)
LStrip(s) == IF s # <<>> /\ IsSpace(Head(s)) THEN LStrip(Tail(s)) ELSE s

RECURSIVE RStrip(_)
RStrip(s) ==
    IF s # <<>> /\ IsSpace(s[Len(s)]) THEN RStrip(SubSeq(s, 1, Len(s) - 1)) ELSE s

\* str.strip()
Strip(s) == RStrip(LStrip(s))

\* unicodedata.normalize("NFKC", s)
Nfkc(s) == FlatMap(NfkcChar, s)

ReplaceSpaceChar(c) == IF c \in {"IDSP", "NBSP"} THEN <<" ">> ELSE <<c>>

\* s.replace("　", " ").replace("\xa0", " ")
ReplaceWideSpaces(s) == FlatMap(ReplaceSpaceChar, s)

\* str.lower()
Lower(s) == MapSeq(LowerChar, s)

\* re.sub(pattern, repl, s) for a pattern given by the length of its match
\* at each position (0: no match); matches are leftmost and do not overlap
RECURSIVE SubAll(_, _, _, _)
SubAll(MatchLen(_, _), repl, s, i) ==
    IF i > Len(s) THEN <<>>
    ELSE LET n == MatchLen(s, i)
         IN  IF n > 0 THEN repl \o SubAll(MatchLen, repl, s, i + n)
             ELSE <<s[i]>> \o SubAll(MatchLen, repl, s, i + 1)

---------------------------------------------------------------------------
(* The three decoration patterns.                                          *)

\* \(\+\s*\d+\s*\)
BonusParenLen(s, i) ==
    IF At(s, i) = "(" /\ At(s, i + 1) = "+"
    THEN LET j == SkipWhile(IsSpace, s, i + 2)
             k == SkipWhile(IsDigit, s, j)
             m == SkipWhile(IsSpace, s, k)
         IN  IF k > j /\ At(s, m) = ")" THEN m - i + 1 ELSE 0
    ELSE 0

\* \+\s*\d+
BonusLen(s, i) ==
    IF At(s, i) = "+"
    THEN LET j == SkipWhile(IsSpace, s, i + 1)
             k == SkipWhile(IsDigit, s, j)
         IN  IF k > j THEN k - i ELSE 0
    ELSE 0

\* \b between positions i-1 and i
WordBoundary(s, i) == IsWordChar(At(s, i - 1)) # IsWordChar(At(s, i))

\* \b[45]\s*성\b
RarityLen(s, i) ==
    IF At(s, i) \in {"4", "5"} /\ WordBoundary(s, i)
    THEN LET j == SkipWhile(IsSpace, s, i + 1)
         IN  IF At(s, j) = "seong" /\ WordBoundary(s, j + 1) THEN j - i + 1 ELSE 0
    ELSE 0

PunctLen(s, i) == IF IsPunct(s[i]) THEN 1 ELSE 0

SupplementaryLen(s, i) == IF IsSupplementary(s[i]) THEN 1 ELSE 0

\* \s+
SpacesLen(s, i) == SkipWhile(IsSpace, s, i) - i

NotNameCharLen(s, i) ==
    IF IsHangul(s[i]) \/ IsAsciiAlnum(s[i]) THEN 0 ELSE 1

\* re.findall(r'[가-힣]+|[A-Za-z0-9]+', s)
RECURSIVE FindRuns(_, _)
FindRuns(s, i) ==
    IF i > Len(s) THEN <<>>
    ELSE LET h == SkipWhile(IsHangul, s, i)
             a == SkipWhile(IsAsciiAlnum, s, i)
         IN  IF h > i THEN <<SubSeq(s, i, h - 1)>> \o FindRuns(s, h)
             ELSE IF a > i THEN <<SubSeq(s, i, a - 1)>> \o FindRuns(s, a)
             ELSE FindRuns(s, i + 1)

\* normalize_text_for_tokens, for a str argument
normalize_text_for_tokens(text) ==
    LET s1 == Strip(ReplaceWideSpaces(Nfkc(text)))
        s2 == SubAll(BonusParenLen, <<" ">>, s1, 1)
        s3 == SubAll(BonusLen, <<" ">>, s2, 1)
        s4 == SubAll(RarityLen, <<" ">>, s3, 1)
        s5 == SubAll(PunctLen, <<" ">>, s4, 1)
        s6 == SubAll(SupplementaryLen, <<" ">>, s5, 1)
        s7 == Strip(SubAll(SpacesLen, <<" ">>, s6, 1))
        tokens == FindRuns(s7, 1)
    IN  SelectSeq(MapSeq(Lower, tokens), LAMBDA t : Strip(t) # <<>>)

IsSpaceOrComma(c) == IsSpace(c) \/ c = ","

\* the non-empty pieces of re.split(r'[\s,]+', s)
RECURSIVE SplitParts(_, _)
SplitParts(s, i) ==
    IF i > Len(s) THEN <<>>
    ELSE IF IsSpaceOrComma(s[i]) THEN SplitParts(s, i + 1)
    ELSE LET NotSep(c) == ~IsSpaceOrComma(c)
             j == SkipWhile(NotSep, s, i)
         IN  <<SubSeq(s, i, j - 1)>> \o SplitParts(s, j)

\* the body of the loop of normalize_search_terms, for one part
NormalizePart(p) ==
    LET p1 == Strip(ReplaceWideSpaces(Nfkc(p)))
        p2 == SubAll(RarityLen, <<>>, p1, 1)
        p3 == SubAll(BonusLen, <<>>, p2, 1)
        p4 == SubAll(NotNameCharLen, <<>>, p3, 1)
    IN  Strip(Lower(p4))

normalize_search_terms(raw_query) ==
    IF raw_query = <<>> \/ Strip(raw_query) = <<>> THEN <<>>
    ELSE SelectSeq(MapSeq(NormalizePart, SplitParts(Strip(raw_query), 1)),
                   LAMBDA p2 : p2 # <<>>)

---------------------------------------------------------------------------
(* The fes list and the derived fes count.                                 *)

fes_list ==
    << <<"ri", "oh">>, <<"gyo", "ne", "ru">>, <<"im", "si", "no">>,
       <<"ku", "ro", "ko">>, <<"deu", "hi", "na">>, <<"su", "na", "ko">>,
       <<"mi", "ka">>, <<"su", "si", "no">>, <<"wa", "ka", "mo">>,
       <<"su", "gi", "sa">>, <<"su", "mi", "ka">> >>

NormalizeFesName(n) == Lower(Nfkc(n))

fes_names_norm == MapSeq(NormalizeFesName, fes_list)

\* the first position >= i holding character c, or Len(s) + 1
IndexFrom(s, c, i) == LET NotC(x) == x # c IN SkipWhile(NotC, s, i)

\* re.search(r'【([^】]*)】', s), else the text before the first "/", else s
extract_limited_block(s) ==
    LET open == IndexFrom(s, "[[", 1)
        close == IndexFrom(s, "]]", open + 1)
        slash == IndexFrom(s, "/", 1)
    IN  IF open <= Len(s) /\ close <= Len(s) THEN SubSeq(s, open + 1, close - 1)
        ELSE IF slash <= Len(s) THEN SubSeq(s, 1, slash - 1)
        ELSE s

RECURSIVE CountNamesIn(_, _)
CountNamesIn(names, tokens) ==
    IF names = <<>> THEN 0
    ELSE (IF Head(names) \in Range(tokens) THEN 1 ELSE 0)
         + CountNamesIn(Tail(names), tokens)

\* a bug: counting the tokens that are fes names, a repeated token each time
CountFesTokens(tokens) ==
    Len(SelectSeq(tokens, LAMBDA t : t \in Range(fes_names_norm)))

\* count_fes_chars_in_limited, for a list argument
count_fes_chars_in_limited(tokens) == CountNamesIn(fes_names_norm, tokens)

---------------------------------------------------------------------------
(* CSV cells and pandas' numeric coercion.  A cell of the file is an       *)
(* integer, a text or empty; a coerced number is a value or NaN.           *)

IntCell(n) == [kind |-> "int", val |-> n, txt |-> <<>>]

TextCell(s) == [kind |-> "text", val |-> 0, txt |-> s]

EmptyCell == [kind |-> "empty", val |-> 0, txt |-> <<>>]

Num(n) == [nan |-> FALSE, val |-> n]

NaN == [nan |-> TRUE, val |-> 0]

DigitValue(c) ==
    CASE c = "0" -> 0 [] c = "1" -> 1 [] c = "4" -> 4 [] c = "5" -> 5 [] c = "8" -> 8

RECURSIVE DecimalValue(_, _)
DecimalValue(s, acc) ==
    IF s = <<>> THEN acc ELSE DecimalValue(Tail(s), 10 * acc + DigitValue(Head(s)))

\* pd.to_numeric(x, errors="coerce") for one cell
to_numeric(cell) ==
    CASE cell.kind = "int" -> Num(cell.val)
      [] cell.kind = "empty" -> NaN
      [] OTHER ->
           LET t == Strip(cell.txt)
           IN  IF t # <<>> /\ \A i \in 1..Len(t) : t[i] \in Digits
               THEN Num(DecimalValue(t, 0)) ELSE NaN

\* .fillna(0)
fillna0(x) == IF x.nan THEN Num(0) ELSE x

\* x >= n and x <= n on a column: a comparison with NaN is False
Ge(x, n) == ~x.nan /\ x.val >= n

Le(x, n) == ~x.nan /\ x.val <= n

\* .fillna("").astype(str) for a text or empty cell
AsStr(cell) == IF cell.kind = "text" THEN cell.txt ELSE <<>>

---------------------------------------------------------------------------
(* Column names, as texts.                                                 *)

COL_NO == <<"beon", "ho">>

COL_LIMIT == <<"han", "jeong">>

COL_PRICE == <<"ga", "gyeok">>

COL_ROSTER == <<"kae", "rik", "teo", " ", "mok", "rok">>

COL_ROSTER_ALIAS == <<"kae", "rik", "teo", "mok", "rok">>

COL_PASS_1 == <<"pae", "seu", " ", "gaet", "su">>

COL_PASS_2 == <<"pae", "seu">>

COL_PASS_3 == <<"pae", "seu", "gaet", "su">>

COL_FES == <<"pe", "seu", "kae", "rik", "teo", "su">>

IsPrefixAt(s, old, i) ==
    /\ i + Len(old) - 1 <= Len(s)
    /\ \A k \in 1..Len(old) : s[i + k - 1] = old[k]

\* str.replace(old, new)
RECURSIVE Replace(_, _, _, _)
Replace(s, old, new, i) ==
    IF i > Len(s) THEN <<>>
    ELSE IF IsPrefixAt(s, old, i) THEN new \o Replace(s, old, new, i + Len(old))
    ELSE <<s[i]>> \o Replace(s, old, new, i + 1)

\* line 27, for one column name
FixColumnName(c) == Replace(Strip(c), COL_ROSTER_ALIAS, COL_ROSTER, 1)

required == <<COL_NO, COL_LIMIT, COL_PRICE, COL_ROSTER>>

pass_candidates == <<COL_PASS_1, COL_PASS_2, COL_PASS_3>>

---------------------------------------------------------------------------
(* load_data: the encodings are tried in order and the first that reads    *)
(* the file is used.  A file is [readable, header, rows]: the encodings    *)
(* under which pd.read_csv succeeds, the header line and the data rows.    *)

encodings == <<"utf-8-sig", "utf-8", "cp949", "euc-kr">>

EmptyFrame == [encoding |-> "none", columns |-> <<>>, rows |-> <<>>]

\* pd.read_csv(path, encoding=enc), when it succeeds
read_csv(f, enc) == [encoding |-> enc, columns |-> f.header, rows |-> f.rows]

RECURSIVE TryEncodings(_, _)
TryEncodings(f, encs) ==
    IF encs = <<>> THEN EmptyFrame
    ELSE IF Head(encs) \in f.readable THEN read_csv(f, Head(encs))
    ELSE TryEncodings(f, Tail(encs))

load_data(f) == TryEncodings(f, encodings)

\* DataFrame.empty: no row or no column
IsEmptyFrame(d) == d.rows = <<>> \/ d.columns = <<>>

\* the cell of a file row under a column name (after line 27)
ColumnCell(row, name) ==
    CASE name = COL_NO -> row.no
      [] name = COL_LIMIT -> row.han
      [] name = COL_PRICE -> row.price
      [] name = COL_ROSTER -> row.roster
      [] name = COL_PASS_1 -> row.pass1
      [] name = COL_PASS_2 -> row.pass2
      [] name = COL_PASS_3 -> row.pass3
      [] name = COL_FES -> row.fes

MissingRequired(columns) ==
    \E i \in 1..Len(required) : required[i] \notin Range(columns)

\* lines 90-94: the first candidate that is a column, or <<>> for None
RECURSIVE FirstCandidate(_, _)
FirstCandidate(cands, columns) ==
    IF cands = <<>> THEN <<>>
    ELSE IF Head(cands) \in Range(columns) THEN Head(cands)
    ELSE FirstCandidate(Tail(cands), columns)

pass_col(columns) == FirstCandidate(pass_candidates, columns)

\* a bug: the token count as the pass count when the column is missing
TokenCountPass(tokens) == Len(tokens)

\* line 99: df["패스"] = 0
DefaultPass(tokens) == 0

\* lines 96-102, for one row
PassOf(row, columns, tokens) ==
    IF pass_col(columns) = <<>> THEN DefaultPass(tokens)
    ELSE fillna0(to_numeric(ColumnCell(row, pass_col(columns)))).val

HasFesColumn(columns) == COL_FES \in Range(columns)

\* lines 83-128, for one row of the file
DeriveRow(row, columns, idx) ==
    LET roster == AsStr(ColumnCell(row, COL_ROSTER))
        tokens == normalize_text_for_tokens(roster)
        limited_text == extract_limited_block(roster)
        limited_tokens == normalize_text_for_tokens(limited_text)
    IN  [idx |-> idx,
         no |-> ColumnCell(row, COL_NO),
         han |-> ColumnCell(row, COL_LIMIT),
         price |-> ColumnCell(row, COL_PRICE),
         roster |-> roster,
         tokens |-> tokens,
         pass |-> PassOf(row, columns, tokens),
         fes |-> IF HasFesColumn(columns)
                 THEN fillna0(to_numeric(ColumnCell(row, COL_FES))).val
                 ELSE count_fes_chars_in_limited(limited_tokens),
         limited_text |-> IF HasFesColumn(columns) THEN <<>> ELSE limited_text,
         limited_tokens |-> IF HasFesColumn(columns) THEN <<>> ELSE limited_tokens]

\* the columns the script adds (lines 84-128)
DerivedColumns(columns) ==
    {"_tokens", "pass", "fes"}
    \cup (IF HasFesColumn(columns) THEN {} ELSE {"_limited_text", "_limited_tokens"})

\* lines 83-128: the frame with its derived columns
Derive(d) ==
    [encoding |-> d.encoding,
     columns |-> d.columns,
     derived |-> DerivedColumns(d.columns),
     rows |-> [i \in 1..Len(d.rows) |-> DeriveRow(d.rows[i], d.columns, i)]]

---------------------------------------------------------------------------
(* The search handler (lines 158-185).                                     *)

\* a bug: result = df, an alias of the module-level frame
DfAlias(d) == [frame |-> d, shared |-> TRUE]

\* df.copy(): a new frame that shares nothing with df
DfCopy(d) == [frame |-> d, shared |-> FALSE]

\* a bug: the bounds excluded (> and <)
PriceInRangeStrict(p, lo, hi) == Ge(p, lo + 1) /\ Le(p, hi - 1)

\* (result["가격"] >= min_price) & (result["가격"] <= max_price)
PriceInRange(p, lo, hi) == Ge(p, lo) /\ Le(p, hi)

\* a bug: substring containment (term in "".join) instead of list membership
TermInTokensSubstring(term, toks) ==
    \E k \in 1..Len(toks) : \E i \in 1..Len(toks[k]) : IsPrefixAt(toks[k], term, i)

\* term in toks
TermInTokens(term, toks) == term \in Range(toks)

\* all(term in toks for term in terms)
AllTermsIn(terms, toks) == \A k \in 1..Len(terms) : TermInTokens(terms[k], toks)

\* lines 173-175 for one record
KeptByTokenFilter(terms, toks) == terms = <<>> \/ AllTermsIn(terms, toks)

IdxOf(rows) == [i \in 1..Len(rows) |-> rows[i].idx]

\* lines 159-175: each value the local variable result takes, and df afterwards
SearchStages(d, c) ==
    LET copy == DfCopy(d)
        r0 == copy.frame.rows
        r1 == [i \in 1..Len(r0) |-> [r0[i] EXCEPT !.price = to_numeric(@)]]
        dAfter == IF copy.shared THEN [d EXCEPT !.rows = r1] ELSE d
        s1 == SelectSeq(r1, LAMBDA r : PriceInRange(r.price, c.min_price, c.max_price))
        r2 == [i \in 1..Len(s1) |-> [s1[i] EXCEPT !.han = fillna0(to_numeric(@))]]
        s2 == SelectSeq(r2, LAMBDA r : Ge(r.han, c.min_limit))
        s3 == SelectSeq(s2, LAMBDA r : r.pass >= c.min_pass /\ r.pass <= c.max_pass)
        s4 == SelectSeq(s3, LAMBDA r : r.fes >= c.min_fes)
        terms == normalize_search_terms(c.query)
        s5 == IF terms # <<>>
              THEN SelectSeq(s4, LAMBDA r : AllTermsIn(terms, r.tokens))
              ELSE s4
    IN  [df |-> dAfter,
         result |-> [ran |-> TRUE, afterPrice |-> IdxOf(s1), afterLimit |-> IdxOf(s2),
                     afterPass |-> IdxOf(s3), afterFes |-> IdxOf(s4),
                     terms |-> terms, final |-> IdxOf(s5)]]

NoResult ==
    [ran |-> FALSE, afterPrice |-> <<>>, afterLimit |-> <<>>, afterPass |-> <<>>,
     afterFes |-> <<>>, terms |-> <<>>, final |-> <<>>]

\* lines 178-185: the count and the table, or the no-results notice
Render(final) ==
    IF final # <<>>
    THEN [table |-> TRUE, notice |-> FALSE, count |-> Len(final), rows |-> final]
    ELSE [table |-> FALSE, notice |-> TRUE, count |-> 0, rows |-> <<>>]

NothingRendered == [table |-> FALSE, notice |-> FALSE, count |-> 0, rows |-> <<>>]

\* a bug: a search flag that stays set once the button was pressed
StickyButton(clicked, pressedBefore) == clicked \/ pressedBefore

\* st.button: True only in the run that its click caused
st_button(clicked, pressedBefore) == clicked

---------------------------------------------------------------------------
(* The widgets (lines 147-156).                                            *)

SliderMin == 0

SliderMax == 100

RECURSIVE SeqMin(_)
SeqMin(s) ==
    IF Len(s) = 1 THEN s[1]
    ELSE LET m == SeqMin(Tail(s)) IN IF Head(s) < m THEN Head(s) ELSE m

RECURSIVE SeqMax(_)
SeqMax(s) ==
    IF Len(s) = 1 THEN s[1]
    ELSE LET m == SeqMax(Tail(s)) IN IF Head(s) > m THEN Head(s) ELSE m

PassColumn(d) == [i \in 1..Len(d.rows) |-> d.rows[i].pass]

\* lines 152-153 (df["패스"] holds no null after lines 99 / 102)
min_pass_possible(d) == SeqMin(PassColumn(d))

max_pass_possible(d) == SeqMax(PassColumn(d))

\* the widgets' values in the first run of the script
DefaultControls(d) ==
    [query |-> <<>>, min_price |-> SliderMin, max_price |-> SliderMax,
     min_limit |-> 0, min_pass |-> min_pass_possible(d),
     max_pass |-> max_pass_possible(d), min_fes |-> 0]

---------------------------------------------------------------------------
(* The inputs of the session: accounts.csv and the values the user gives   *)
(* the widgets.                                                            *)

MaxRows == 2

Abc == <<"a", "b">>

\* 히마리(+10) / 히카리 5성
RosterA ==
    <<"hi", "ma", "ri", "(", "+", "1", "0", ")", " ", "/", " ",
      "hi", "ka", "ri", " ", "5", "seong">>

\* 【미카 미카 / 와카모】 수미카
RosterB ==
    <<"[[", "mi", "ka", " ", "mi", "ka", " ", "/", " ", "wa", "ka", "mo", "]]",
      " ", "su", "mi", "ka">>

\* 수미카
RosterC == <<"su", "mi", "ka">>

\* 미카+5 / R18
RosterE == <<"mi", "ka", "+", "5", " ", "/", " ", "R", "1", "8">>

SampleRows ==
    << [no |-> IntCell(1), han |-> IntCell(3), price |-> IntCell(10),
        roster |-> TextCell(RosterA), pass1 |-> IntCell(1), pass2 |-> IntCell(0),
        pass3 |-> IntCell(1), fes |-> IntCell(1)],
       [no |-> IntCell(2), han |-> TextCell(Abc), price |-> TextCell(Abc),
        roster |-> TextCell(RosterB), pass1 |-> EmptyCell, pass2 |-> TextCell(Abc),
        pass3 |-> IntCell(1), fes |-> TextCell(Abc)],
       [no |-> IntCell(3), han |-> IntCell(0), price |-> IntCell(20),
        roster |-> TextCell(RosterC), pass1 |-> IntCell(0), pass2 |-> IntCell(1),
        pass3 |-> IntCell(0), fes |-> IntCell(0)],
       [no |-> IntCell(4), han |-> IntCell(1), price |-> IntCell(21),
        roster |-> EmptyCell, pass1 |-> IntCell(1), pass2 |-> IntCell(1),
        pass3 |-> IntCell(0), fes |-> EmptyCell],
       [no |-> IntCell(5), han |-> TextCell(<<"1">>), price |-> IntCell(9),
        roster |-> TextCell(RosterE), pass1 |-> TextCell(<<"1">>), pass2 |-> IntCell(0),
        pass3 |-> IntCell(0), fes |-> IntCell(2)] >>

\* the data rows of a file: up to MaxRows sample rows, in the samples' order
RowChoices ==
    UNION {{c \in [1..n -> 1..Len(SampleRows)] :
               \A i \in 1..n : \A j \in 1..n : i < j => c[i] <= c[j]} : n \in 0..MaxRows}

Datasets == {[i \in 1..Len(c) |-> SampleRows[c[i]]] : c \in RowChoices}

Headers ==
    { <<COL_NO, COL_LIMIT, COL_PRICE, COL_ROSTER, COL_PASS_1, COL_FES>>,
      <<COL_NO, COL_LIMIT, <<" ">> \o COL_PRICE \o <<" ">>, COL_ROSTER_ALIAS,
        COL_PASS_3, COL_PASS_2>>,
      <<COL_NO, COL_LIMIT, COL_PRICE, COL_ROSTER>>,
      <<COL_NO, COL_LIMIT, COL_PRICE, COL_ROSTER, COL_FES>>,
      <<COL_NO, COL_LIMIT, COL_ROSTER, COL_PASS_1>> }

ReadableSets == {{}, {"utf-8-sig", "utf-8"}, {"cp949", "euc-kr"}}

Files ==
    {[readable |-> r, header |-> h, rows |-> d] :
        r \in ReadableSets, h \in Headers, d \in Datasets}

\* "", "미카", "히카리, 히마리", "미카 네루"
Queries ==
    { <<>>,
      <<"mi", "ka">>,
      <<"hi", "ka", "ri", ",", " ", "hi", "ma", "ri">>,
      <<"mi", "ka", " ", "ne", "ru">> }

PriceRanges == {<<0, 100>>, <<10, 20>>, <<0, 10>>}

MinLimits == {0, 1}

MinFesValues == {0, 1}

\* the session has not started (the state of the session in TokSpec)
NoControls ==
    [query |-> <<>>, min_price |-> 0, max_price |-> 0, min_limit |-> 0,
     min_pass |-> 0, max_pass |-> 0, min_fes |-> 0]

TokOff ==
    [phase |-> "off", items |-> <<>>, seps |-> <<>>, text |-> <<>>, tokens |-> <<>>,
     qnames |-> <<>>, query |-> <<>>, terms |-> <<>>, kept |-> FALSE]

---------------------------------------------------------------------------
(* The session.  The script runs top to bottom once per interaction; the   *)
(* first run is split at its two st.stop() calls.                          *)

Init ==
    /\ pc = "load"
    /\ file \in Files
    /\ df = EmptyFrame
    /\ notice = "none"
    /\ ctl = NoControls
    /\ result = NoResult
    /\ rendered = NothingRendered
    /\ pressed = FALSE
    /\ lastEvent = "none"
    /\ tok = TokOff

\* lines 19-22
Load ==
    /\ pc = "load"
    /\ df' = load_data(file)
    /\ IF IsEmptyFrame(df')
       THEN pc' = "halted" /\ notice' = "load_error"
       ELSE pc' = "columns" /\ notice' = notice
    /\ UNCHANGED <<file, ctl, result, rendered, pressed, lastEvent, tok>>

\* lines 27-31
CheckColumns ==
    /\ pc = "columns"
    /\ df' = [df EXCEPT !.columns = MapSeq(FixColumnName, df.columns)]
    /\ IF MissingRequired(df'.columns)
       THEN pc' = "halted" /\ notice' = "columns_error"
       ELSE pc' = "derive" /\ notice' = notice
    /\ UNCHANGED <<file, ctl, result, rendered, pressed, lastEvent, tok>>

\* lines 83-156: the derived columns, then the widgets with their defaults
DeriveAndShowControls ==
    /\ pc = "derive"
    /\ df' = Derive(df)
    /\ ctl' = DefaultControls(df')
    /\ pc' = "controls"
    /\ UNCHANGED <<file, notice, result, rendered, pressed, lastEvent, tok>>

\* one run of the script with the widgets at c; clicked: the button caused it.
\* load_data is cached and lines 27-128 rebuild the same columns.
Rerun(c, clicked) ==
    /\ pc = "controls"
    /\ ctl' = c
    /\ IF st_button(clicked, pressed)
       THEN LET s == SearchStages(df, c)
            IN  /\ df' = s.df
                /\ result' = s.result
                /\ rendered' = Render(s.result.final)
       ELSE /\ df' = df
            /\ result' = NoResult
            /\ rendered' = NothingRendered
    /\ pressed' = (pressed \/ clicked)
    /\ lastEvent' = IF clicked THEN "press" ELSE "change"
    /\ UNCHANGED <<pc, file, notice, tok>>

\* line 147
SetQuery ==
    \E q \in Queries : q # ctl.query /\ Rerun([ctl EXCEPT !.query = q], FALSE)

\* line 148
SetPriceRange ==
    \E r \in PriceRanges :
        /\ r # <<ctl.min_price, ctl.max_price>>
        /\ Rerun([ctl EXCEPT !.min_price = r[1], !.max_price = r[2]], FALSE)

\* line 149
SetMinLimit ==
    \E n \in MinLimits : n # ctl.min_limit /\ Rerun([ctl EXCEPT !.min_limit = n], FALSE)

\* line 154
SetPassRange ==
    /\ pc = "controls"
    /\ \E lo \in min_pass_possible(df)..max_pass_possible(df) :
         \E hi \in lo..max_pass_possible(df) :
            /\ <<lo, hi>> # <<ctl.min_pass, ctl.max_pass>>
            /\ Rerun([ctl EXCEPT !.min_pass = lo, !.max_pass = hi], FALSE)

\* line 156
SetMinFes ==
    \E n \in MinFesValues : n # ctl.min_fes /\ Rerun([ctl EXCEPT !.min_fes = n], FALSE)

\* line 158
PressSearch == Rerun(ctl, TRUE)

Next ==
    \/ Load
    \/ CheckColumns
    \/ DeriveAndShowControls
    \/ SetQuery
    \/ SetPriceRange
    \/ SetMinLimit
    \/ SetPassRange
    \/ SetMinFes
    \/ PressSearch

Spec == Init /\ [][Next]_vars

---------------------------------------------------------------------------
(* The tokenizer and the query normalizer on roster texts built from       *)
(* names, decorations and separators, and the token filter on the result.  *)

MaxItems == 2

MaxQueryNames == 2

\* 히마리, 히카리, 미카, R18
RosterNames ==
    {<<"hi", "ma", "ri">>, <<"hi", "ka", "ri">>, <<"mi", "ka">>, <<"R", "1", "8">>}

\* 네루: a name no roster lists
OutsideName == <<"ne", "ru">>

\* (+10), +1, 5성
Decorations == {<<"(", "+", "1", "0", ")">>, <<"+", "1">>, <<"5", "seong">>}

\* a name, alone or followed by a decoration, directly or after a space
Items ==
    {[name |-> n, gap |-> <<>>, deco |-> <<>>] : n \in RosterNames}
    \cup {[name |-> n, gap |-> g, deco |-> d] :
             n \in RosterNames, g \in {<<>>, <<" ">>}, d \in Decorations}

RosterSeparators == {<<" ">>, <<"/">>}

QuerySeparators == {<<" ">>, <<",">>}

ItemText(it) == it.name \o it.gap \o it.deco

RECURSIVE JoinWith(_, _)
JoinWith(texts, seps) ==
    IF Len(texts) = 1 THEN texts[1]
    ELSE texts[1] \o seps[1] \o JoinWith(Tail(texts), Tail(seps))

RosterInputs ==
    UNION {{[items |-> its, seps |-> sp] :
               its \in [1..n -> Items], sp \in [1..(n - 1) -> RosterSeparators]} :
           n \in 1..MaxItems}

QueryInputs ==
    UNION {{[names |-> ns, seps |-> sp] :
               ns \in [1..n -> RosterNames \cup {OutsideName}],
               sp \in [1..(n - 1) -> QuerySeparators]} :
           n \in 1..MaxQueryNames}

NoFile == [readable |-> {}, header |-> <<>>, rows |-> <<>>]

TokInit ==
    /\ pc = "off"
    /\ file = NoFile
    /\ df = EmptyFrame
    /\ notice = "none"
    /\ ctl = NoControls
    /\ result = NoResult
    /\ rendered = NothingRendered
    /\ pressed = FALSE
    /\ lastEvent = "none"
    /\ \E r \in RosterInputs :
          tok = [TokOff EXCEPT !.phase = "text", !.items = r.items, !.seps = r.seps,
                               !.text = JoinWith(MapSeq(ItemText, r.items), r.seps)]

\* line 84, for the one roster
TokTokenize ==
    /\ tok.phase = "text"
    /\ tok' = [tok EXCEPT !.phase = "tokens",
                          !.tokens = normalize_text_for_tokens(tok.text)]
    /\ UNCHANGED <<pc, file, df, notice, ctl, result, rendered, pressed, lastEvent>>

\* line 173, for a query of names
TokNormalizeQuery ==
    /\ tok.phase = "tokens"
    /\ \E q \in QueryInputs :
          LET text == JoinWith(q.names, q.seps)
          IN  tok' = [tok EXCEPT !.phase = "terms", !.qnames = q.names,
                                 !.query = text,
                                 !.terms = normalize_search_terms(text)]
    /\ UNCHANGED <<pc, file, df, notice, ctl, result, rendered, pressed, lastEvent>>

\* lines 174-175, for the one record
TokFilter ==
    /\ tok.phase = "terms"
    /\ tok' = [tok EXCEPT !.phase = "done",
                          !.kept = KeptByTokenFilter(tok.terms, tok.tokens)]
    /\ UNCHANGED <<pc, file, df, notice, ctl, result, rendered, pressed, lastEvent>>

TokNext == TokTokenize \/ TokNormalizeQuery \/ TokFilter

TokSpec == TokInit /\ [][TokNext]_vars

---------------------------------------------------------------------------
(* Claims C4 and C5, over TokSpec.                                         *)

\* the names a roster input lists, lowercased, in their order
ListedNames(t) == [i \in 1..Len(t.items) |-> Lower(t.items[i].name)]

\* C4: the tokens of a roster text made of names, each optionally followed
\* by "(+N)", "+N" or a rarity marker and separated by spaces or "/", are
\* exactly the lowercased names in their order; no token comes from a bonus
\* number or a rarity marker.
C4_TokensAreTheNames ==
    tok.phase \in {"tokens", "terms", "done"} => tok.tokens = ListedNames(tok)

\* C5: a query of names the roster lists, in any order and separated by
\* spaces or commas, keeps the record, and a query with a name that is no
\* token of the roster drops it.
C5_QueryOfListedNamesKeeps ==
    tok.phase = "done" =>
        /\ (\A i \in 1..Len(tok.qnames) : Lower(tok.qnames[i]) \in Range(ListedNames(tok)))
               => tok.kept
        /\ (\E i \in 1..Len(tok.qnames) : Lower(tok.qnames[i]) \notin Range(tok.tokens))
               => ~tok.kept

---------------------------------------------------------------------------
(* Claims C1-C3 and C6-C10, over Spec.                                     *)

Searched == pc = "controls" /\ lastEvent = "press"

RowIdx == 1..Len(df.rows)

\* C1: a record that passes the numeric filters is kept by the token filter
\* iff every term of normalize_search_terms(query) equals some token of its
\* _tokens; with no terms every such record is kept.
C1_TokenFilterIsExactAnd ==
    Searched =>
        LET terms == normalize_search_terms(ctl.query)
        IN  /\ \A i \in Range(result.afterFes) :
                 (i \in Range(rendered.rows))
                 <=> (\A k \in 1..Len(terms) :
                        \E j \in 1..Len(df.rows[i].tokens) : df.rows[i].tokens[j] = terms[k])
            /\ Range(rendered.rows) \subseteq Range(result.afterFes)
            /\ (terms = <<>> => rendered.rows = result.afterFes)

\* a search for 미카 that keeps a record with the token 미카 and drops one
\* whose only similar token is 수미카
C1_Witness ==
    /\ Searched
    /\ normalize_search_terms(ctl.query) = << <<"mi", "ka">> >>
    /\ \E i \in Range(result.afterFes) : i \in Range(rendered.rows)
    /\ \E i \in Range(result.afterFes) :
          /\ i \notin Range(rendered.rows)
          /\ df.rows[i].tokens = << <<"su", "mi", "ka">> >>

\* the frame with every non-numeric cell of 가격 and 한정 replaced by 0
\* (패스 and 페스캐릭터수 are coerced when the columns are built)
ZeroFilled(d) ==
    [d EXCEPT !.rows =
        [i \in 1..Len(d.rows) |->
            [d.rows[i] EXCEPT !.price = IntCell(fillna0(to_numeric(@)).val),
                              !.han = IntCell(fillna0(to_numeric(@)).val)]]]

\* C2: a record with a non-numeric or missing cell in a numeric column is
\* searched as if that value were zero.
C2_NonNumericCountsAsZero ==
    Searched => rendered.rows = SearchStages(ZeroFilled(df), ctl).result.final

\* C3: a record with a numeric price p passes the price filter iff
\* min_price <= p <= max_price.
C3_PriceRangeInclusive ==
    Searched =>
        \A i \in RowIdx :
            LET p == to_numeric(df.rows[i].price)
            IN  ~p.nan =>
                  ((i \in Range(result.afterPrice))
                   <=> (ctl.min_price <= p.val /\ p.val <= ctl.max_price))

\* a search with the range [10, 20] over a record priced at a bound, which
\* passes, and a record priced 9 or 21, which does not
C3_Witness ==
    /\ Searched
    /\ ctl.min_price = 10 /\ ctl.max_price = 20
    /\ \E i \in Range(result.afterPrice) : to_numeric(df.rows[i].price).val \in {10, 20}
    /\ \E i \in RowIdx :
          /\ i \notin Range(result.afterPrice)
          /\ to_numeric(df.rows[i].price) \in {Num(9), Num(21)}

FesNames == Range(fes_names_norm)

LimitedTokens(roster) == normalize_text_for_tokens(extract_limited_block(roster))

FesColumnUsed(d) ==
    \A i \in 1..Len(d.rows) :
        /\ d.rows[i].fes = (LET c == ColumnCell(file.rows[i], COL_FES)
                            IN  IF to_numeric(c).nan THEN 0 ELSE to_numeric(c).val)
        /\ d.derived \cap {"_limited_text", "_limited_tokens"} = {}

\* C6 as first stated: without the column, the fes count is the number of
\* tokens of the limited sub-block that are fes names; with the column it is
\* the column's coerced value and nothing is derived.
C6_FesCountsTokens ==
    pc = "controls" =>
        IF COL_FES \in Range(df.columns)
        THEN FesColumnUsed(df)
        ELSE \A i \in RowIdx :
                df.rows[i].fes =
                    Cardinality({j \in 1..Len(LimitedTokens(df.rows[i].roster)) :
                                    LimitedTokens(df.rows[i].roster)[j] \in FesNames})

\* C6, amended: without the column, the fes count is the number of fes
\* names that occur among the tokens of the limited sub-block, a name that
\* occurs several times counted once; with the column it is the column's
\* coerced value and nothing is derived.
C6_FesCountsNames ==
    pc = "controls" =>
        IF COL_FES \in Range(df.columns)
        THEN FesColumnUsed(df)
        ELSE \A i \in RowIdx :
                LET limited == LimitedTokens(df.rows[i].roster)
                IN  /\ df.rows[i].fes = Cardinality(FesNames \cap Range(limited))
                    /\ df.rows[i].limited_tokens = limited

\* a dataset without the column holding the roster 【미카 미카 / 와카모】 수미카,
\* whose limited block names two fes characters in three tokens
C6_Witness ==
    /\ pc = "controls"
    /\ COL_FES \notin Range(df.columns)
    /\ \E i \in RowIdx : df.rows[i].roster = RosterB /\ df.rows[i].fes = 2

FixedHeader(f) == {FixColumnName(f.header[i]) : i \in 1..Len(f.header)}

RequiredMissing(f) == {COL_NO, COL_LIMIT, COL_PRICE, COL_ROSTER} \ FixedHeader(f) # {}

Unreadable(f) == \A i \in 1..Len(encodings) : encodings[i] \notin f.readable

StartupOver == pc \in {"halted", "controls"}

\* C7: the session halts exactly when no encoding reads the file or a
\* required column is missing; a halted session shows the fatal notice and
\* renders no search result.
C7_HaltsExactlyOnLoadOrColumns ==
    /\ StartupOver => ((pc = "halted") <=> (Unreadable(file) \/ RequiredMissing(file)))
    /\ pc = "halted" =>
          /\ notice \in {"load_error", "columns_error"}
          /\ rendered = NothingRendered
    /\ pc = "controls" => df.encoding = encodings[CHOOSE i \in 1..Len(encodings) :
                              /\ encodings[i] \in file.readable
                              /\ \A j \in 1..(i - 1) : encodings[j] \notin file.readable]

PassNames == {COL_PASS_1, COL_PASS_2, COL_PASS_3}

CoercedInt(cell) == IF to_numeric(cell).nan THEN 0 ELSE to_numeric(cell).val

C9_SearchLeavesDatasetAlone ==
    [][pc = "controls" =>
          /\ df' = df
          /\ result'.ran => result' = SearchStages(df, ctl').result]_vars

\* a search over a dataset with a non-numeric price, which the handler
\* coerces in its own copy
C9_Witness ==
    /\ Searched
    /\ rendered.table
    /\ \E i \in RowIdx : df.rows[i].price.kind = "text"

\* C10: nothing is rendered before the first press; a press renders exactly
\* one outcome, computed from the widgets' values at that press; a change
\* of a widget runs no search.
C10_OneOutcomePerPress ==
    pc = "controls" =>
        /\ ~pressed => (rendered = NothingRendered /\ ~result.ran)
        /\ lastEvent = "press" =>
              /\ pressed /\ result.ran
              /\ rendered.table # rendered.notice
              /\ rendered = Render(SearchStages(df, ctl).result.final)
              /\ rendered.count = Len(rendered.rows)
        /\ lastEvent = "change" => (rendered = NothingRendered /\ ~result.ran)
        /\ lastEvent = "none" => ~pressed

\* a widget changed after a press: the outcome of the press is gone and no
\* search ran
C10_Witness ==
    /\ pc = "controls"
    /\ pressed
    /\ lastEvent = "change"
    /\ ctl.query # <<>>

=============================================================================
